---- MODULE Spec2Model ----
(***************************************************************************)
(* Lowering of scalar operators to Numba kernels                           *)
(* (pytensor/link/numba/dispatch/scalar.py).                               *)
(*                                                                         *)
(* One behaviour of Spec is the lowering of one graph node: the driver     *)
(* calls numba_funcify(op, node, **kwargs), single dispatch selects the    *)
(* strategy registered for the operator's class, and the strategy runs to  *)
(* completion (a kernel, or an exception).  SpecCall lowers Add, Mul and   *)
(* Clip nodes and then calls the kernel on argument values.                *)
(***************************************************************************)
EXTENDS Integers, Sequences, FiniteSets, TLC

VARIABLES pc, op, node, kwargs, strategy, bridge, result, args, ret

vars == <<pc, op, node, kwargs, strategy, bridge, result, args, ret>>

(***************************************************************************)
(* Bounds of the model.                                                    *)
(***************************************************************************)
\* most input Variables of a lowered node (Spec)
MaxInputs == 2
\* most output Variables of a lowered node (Spec)
MaxOutputs == 2
\* most input Variables of a called Add/Mul node (SpecCall)
MaxFoldInputs == 3
\* largest argument value a kernel is called with (SpecCall)
MaxVal == 5

\* names of input Variables: an ordinary one, the name of the Add kernel,
\* and the name the generated source uses for the numpy module
Names == {"x", "add", "np"}
FoldNames == {"x", "add"}
Dtypes == {"float32", "float64"}

NoSpec == <<>>
NoError == "none"
NoKernel == [kind |-> "none"]

(***************************************************************************)
(* Operator classes.  Parent is the class hierarchy of the operators       *)
(* scalar.py imports; XlogX and XlogY0 are scalar operators for which      *)
(* scalar.py registers nothing.                                            *)
(***************************************************************************)
Parent ==
  [k \in {"Add", "Mul", "Cast", "Clip", "Switch", "Second", "Identity",
          "ViewOp", "Reciprocal", "Sigmoid", "GammaLn", "Log1mexp", "Erf",
          "Erfc", "Composite", "XlogX", "XlogY0", "UnaryScalarOp",
          "BinaryScalarOp", "ScalarOp", "Op"} |->
     CASE k \in {"Add", "Mul", "Clip", "Switch", "Composite",
                 "UnaryScalarOp", "BinaryScalarOp"} -> "ScalarOp"
       [] k \in {"Cast", "Identity", "Reciprocal", "Sigmoid", "GammaLn",
                 "Log1mexp", "Erf", "Erfc", "XlogX"} -> "UnaryScalarOp"
       [] k \in {"Second", "XlogY0"} -> "BinaryScalarOp"
       [] k \in {"ScalarOp", "ViewOp"} -> "Op"
       [] OTHER -> "object"]

OpKinds == DOMAIN Parent

\* the method resolution order of a class: itself, then its bases
RECURSIVE Mro(_)
Mro(k) == IF k = "object" THEN <<"object">> ELSE <<k>> \o Mro(Parent[k])

\* the @numba_funcify.register(...) decorators of scalar.py
RegistryMissingAdd ==
  { <<"ScalarOp", "numba_funcify_ScalarOp">>,
    <<"Switch", "numba_funcify_Switch">>,
    <<"Mul", "numba_funcify_Mul">>,
    <<"Cast", "numba_funcify_Cast">>,
    <<"Identity", "numba_funcify_ViewOp">>,
    <<"ViewOp", "numba_funcify_ViewOp">>,
    <<"Clip", "numba_funcify_Clip">>,
    <<"Composite", "numba_funcify_Composite">>,
    <<"Second", "numba_funcify_Second">>,
    <<"Reciprocal", "numba_funcify_Reciprocal">>,
    <<"Sigmoid", "numba_funcify_Sigmoid">>,
    <<"GammaLn", "numba_funcify_GammaLn">>,
    <<"Log1mexp", "numba_funcify_Log1mexp">>,
    <<"Erf", "numba_funcify_Erf">>,
    <<"Erfc", "numba_funcify_Erfc">> }

Registry ==
  { <<"ScalarOp", "numba_funcify_ScalarOp">>,
    <<"Switch", "numba_funcify_Switch">>,
    <<"Add", "numba_funcify_Add">>,
    <<"Mul", "numba_funcify_Mul">>,
    <<"Cast", "numba_funcify_Cast">>,
    <<"Identity", "numba_funcify_ViewOp">>,
    <<"ViewOp", "numba_funcify_ViewOp">>,
    <<"Clip", "numba_funcify_Clip">>,
    <<"Composite", "numba_funcify_Composite">>,
    <<"Second", "numba_funcify_Second">>,
    <<"Reciprocal", "numba_funcify_Reciprocal">>,
    <<"Sigmoid", "numba_funcify_Sigmoid">>,
    <<"GammaLn", "numba_funcify_GammaLn">>,
    <<"Log1mexp", "numba_funcify_Log1mexp">>,
    <<"Erf", "numba_funcify_Erf">>,
    <<"Erfc", "numba_funcify_Erfc">> }

Registered(k) == \E e \in Registry : e[1] = k

StrategyOf(k) == (CHOOSE e \in Registry : e[1] = k)[2]

\* numba_funcify: the strategy of the first class of the operator's
\* resolution order that has one; the unregistered base function is the
\* generic fallback lowering
RECURSIVE FirstRegistered(_)
FirstRegistered(mro) ==
  IF mro = <<>> THEN "numba_funcify"
  ELSE IF Registered(Head(mro)) THEN StrategyOf(Head(mro))
  ELSE FirstRegistered(Tail(mro))

numba_funcify(kind) == FirstRegistered(Mro(kind))

(***************************************************************************)
(* Collaborators of scalar.py that live in other modules of the package.   *)
(***************************************************************************)
\* get_name_for_object: the display name of a Variable or an implementation
get_name_for_object(x) == x.name

Suffixed(name, sep, k) == IF k = 0 THEN name ELSE name \o sep \o ToString(k)

\* the natural name, or the name with the first integer suffix not taken
RECURSIVE FreshName(_, _, _, _)
FreshName(name, sep, taken, k) ==
  IF Suffixed(name, sep, k) \notin taken THEN Suffixed(name, sep, k)
  ELSE FreshName(name, sep, taken, k + 1)

\* [unique_names(v, force_unique=True) for v in objs] of a generator made by
\* unique_name_generator(external_names, suffix_sep=sep)
RECURSIVE unique_name_generator(_, _, _)
unique_name_generator(external_names, sep, objs) ==
  IF objs = <<>> THEN <<>>
  ELSE LET n == FreshName(get_name_for_object(Head(objs)), sep,
                          external_names, 0)
       IN <<n>> \o unique_name_generator(external_names \cup {n}, sep,
                                         Tail(objs))

\* generate_fallback_impl(op, node, **kwargs): the generic fallback lowering
generate_fallback_impl(o, n, kw) ==
  [kind |-> "fallback", name |-> "perform", op |-> o.kind,
   nin |-> Len(n.inputs), kwargs |-> kw]

\* create_numba_signature(x, force_scalar=True): the scalar dtypes of the
\* inputs and outputs of x (a node or a function graph), in order
create_numba_signature(x) ==
  [ins |-> [i \in 1..Len(x.inputs) |-> x.inputs[i].dtype],
   outs |-> x.outputs]

\* numba_basic.to_scalar: the scalar held by a 0-d array, or the scalar
to_scalar(a) == a.val

\* the names numpy and scipy.special.cython_special define
NumpyNames == {"exp"}
CythonSpecialNames == {"erfcx"}

\* wrap_cython_function(cython_func, output_dtype, input_dtypes): a handle
\* on the implementation for the dtype combination; br is what the lookup
\* finds for this routine and these dtypes
wrap_cython_function(name, output_dtype, input_dtypes, br) ==
  [kind |-> "cython", name |-> name,
   has_pyx_skip_dispatch |-> br.pyx,
   arg_dtypes |-> br.inner_in, out_dtype |-> br.inner_out]

\* what the lookup of one routine may find for a node with n inputs
\* (no implementation for the dtypes, signalled by an exception or by None;
\* or one, with its working precisions and whether it takes the flag)
BridgeOutcomes(n) ==
  [avail : {FALSE}, signal : {"raise", "none"}, pyx : {FALSE},
   inner_in : {[i \in 1..n |-> "float64"]}, inner_out : {"float64"}]
  \cup
  [avail : {TRUE}, signal : {"none"}, pyx : BOOLEAN,
   inner_in : [1..n -> Dtypes], inner_out : Dtypes]

\* what the library is found to hold when it is not asked
NotConsulted(n) ==
  [avail |-> FALSE, signal |-> "none", pyx |-> FALSE,
   inner_in |-> [i \in 1..n |-> "float64"], inner_out |-> "float64"]

(***************************************************************************)
(* Results of a strategy.                                                  *)
(***************************************************************************)
Returned(kernel, trace, calls) ==
  [error |-> NoError, kernel |-> kernel, trace |-> trace, calls |-> calls]

Raised(error, trace) ==
  [error |-> error, kernel |-> NoKernel, trace |-> trace, calls |-> <<>>]

NoResult == Raised(NoError, <<>>)

\* numba_basic.numba_njit(signature, fastmath=..., cache=...)(fn)
numba_njit(signature, cache, src, env, impl) ==
  [kind |-> "njit", signature |-> signature, cache |-> cache, src |-> src,
   env |-> env, impl |-> impl]

\* numba_basic.global_numba_func(fn) of a kernel defined in scalar.py
global_numba_func(fn, params) ==
  [kind |-> "global", name |-> fn, params |-> params]

(***************************************************************************)
(* numba_funcify_ScalarOp                                                  *)
(***************************************************************************)
hasattr_nfunc_spec(o) == o.nfunc_spec # NoSpec

\* scalar_func_path.startswith("scipy.special"), the path given by its
\* dotted segments: a bare name holds no dot
StartsWithScipySpecial(path) ==
  /\ Len(path) >= 2
  /\ path[1] = "scipy"
  /\ path[2] \in {"special", "specialx"}

DispatchFlagArgs_Always(has_pyx_skip_dispatch) == <<"np.intc(1)">>

\* lines 98-107 and 132-141: the trailing argument of the forwarded call
DispatchFlagArgs(has_pyx_skip_dispatch) ==
  IF has_pyx_skip_dispatch THEN <<"np.intc(1)">> ELSE <<>>

\* lines 91-107: the wrapper that forwards its parameters
NoConversionSrc(scalar_op_fn_name, n, has_pyx_skip_dispatch) ==
  LET input_names ==
        unique_name_generator({scalar_op_fn_name, "scalar_func_numba"},
                              "_", n.inputs)
  IN [def |-> scalar_op_fn_name,
      params |-> input_names,
      outer |-> <<>>,
      callee |-> "scalar_func_numba",
      args |-> [i \in 1..Len(input_names) |->
                  [cast |-> <<>>, var |-> input_names[i]]],
      extra |-> DispatchFlagArgs(has_pyx_skip_dispatch)]

\* lines 112-115: inp_tmp_dtype_<i> for the i-th working precision, from 0
input_tmp_dtype_names(input_inner_dtypes) ==
  [i \in 1..Len(input_inner_dtypes) |->
     [key |-> "inp_tmp_dtype_" \o ToString(i - 1),
      value |-> input_inner_dtypes[i]]]

\* np.dtype(x): the dtype, float64 for None
np_dtype(x) == IF x = <<>> THEN "float64" ELSE x[1]

ZipLen(a, b) == IF Len(a) <= Len(b) THEN Len(a) ELSE Len(b)

Keys(env) == {env[i].key : i \in 1..Len(env)}

\* lines 110-116: the environment of the converting wrapper
ConversionEnv(scalar_func_numba, output_inner_dtype, tmp_names) ==
  <<[key |-> "scalar_func_numba", value |-> scalar_func_numba],
    [key |-> "direct_cast", value |-> "numba_basic.direct_cast"],
    [key |-> "output_dtype", value |-> np_dtype(output_inner_dtype)]>>
  \o tmp_names

converted_call_args_FirstDtype(input_names, tmp_names) ==
  [i \in 1..ZipLen(input_names, tmp_names) |->
     [cast |-> <<"direct_cast", tmp_names[1].key>>, var |-> input_names[i]]]

\* lines 124-131: direct_cast(<name>, <inp_tmp_dtype_i>) for the names and
\* the working precisions zipped
converted_call_args(input_names, tmp_names) ==
  [i \in 1..ZipLen(input_names, tmp_names) |->
     [cast |-> <<"direct_cast", tmp_names[i].key>>, var |-> input_names[i]]]

\* lines 118-141: the wrapper that casts every input, calls, and casts back
ConversionSrc(scalar_op_fn_name, n, global_env, tmp_names, has_pyx) ==
  LET has_pyx_skip_dispatch == has_pyx
      input_names ==
        unique_name_generator(
          {scalar_op_fn_name, "scalar_func_numba"} \cup Keys(global_env),
          "_", n.inputs)
  IN [def |-> scalar_op_fn_name,
      params |-> input_names,
      outer |-> <<"direct_cast", "output_dtype">>,
      callee |-> "scalar_func_numba",
      args |-> converted_call_args(input_names, tmp_names),
      extra |-> DispatchFlagArgs(has_pyx_skip_dispatch)]

\* lines 84-154: the source is built around the implementation (resolved, or
\* the generic fallback when none was), compiled and specialized.  None is
\* <<>> and a value v is <<v>>.
Synthesize(o, n, kw, trace, resolved, has_pyx, inner_in, inner_out) ==
  LET has_pyx_skip_dispatch == has_pyx
      input_inner_dtypes == inner_in
      output_inner_dtype == inner_out
      fell_back == resolved = <<>>
      scalar_func_numba ==
        IF fell_back THEN generate_fallback_impl(o, n, kw)
        ELSE resolved[1]
      t2 == IF fell_back THEN trace \o <<"generate_fallback_impl">>
            ELSE trace
      scalar_op_fn_name == get_name_for_object(scalar_func_numba)
      no_conversion == input_inner_dtypes = <<>> /\ output_inner_dtype = <<>>
      tmp_names ==
        IF input_inner_dtypes = <<>> THEN <<>>
        ELSE input_tmp_dtype_names(input_inner_dtypes[1])
      global_env ==
        IF no_conversion
        THEN <<[key |-> "scalar_func_numba", value |-> scalar_func_numba]>>
        ELSE ConversionEnv(scalar_func_numba, output_inner_dtype, tmp_names)
      scalar_op_src ==
        IF no_conversion
        THEN NoConversionSrc(scalar_op_fn_name, n, has_pyx_skip_dispatch)
        ELSE ConversionSrc(scalar_op_fn_name, n, global_env, tmp_names,
                           has_pyx_skip_dispatch)
  IN Returned(numba_njit(create_numba_signature(n), "False", scalar_op_src,
                         global_env, scalar_func_numba),
              t2 \o <<"unique_name_generator", "compile_function_src",
                      "create_numba_signature", "numba_njit">>,
              <<>>)

OutputsSupported_Any(output_dtypes) == TRUE

\* lines 55-56: only one output is supported
OutputsSupported(output_dtypes) == Len(output_dtypes) = 1

\* lines 36-82: the implementation is looked up, then the outputs counted,
\* then the special-function library asked
ScalarOpLowering(o, n, kw, br) ==
  IF ~hasattr_nfunc_spec(o)
  THEN Returned(generate_fallback_impl(o, n, kw),
                <<"generate_fallback_impl">>, <<>>)
  ELSE
    LET scalar_func_path == o.nfunc_spec
        module_path == SubSeq(scalar_func_path, 1, Len(scalar_func_path) - 1)
        scalar_func_name == scalar_func_path[Len(scalar_func_path)]
        bare == module_path = <<>>
        t1 == IF bare THEN <<"getattr_np">> ELSE <<>>
        input_dtypes == [i \in 1..Len(n.inputs) |-> n.inputs[i].dtype]
        output_dtypes == n.outputs
        special == StartsWithScipySpecial(scalar_func_path)
        t2 == IF special THEN t1 \o <<"getattr_cython_special">> ELSE t1
        cython_found == special /\ scalar_func_name \in CythonSpecialNames
        t3 == t2 \o <<"wrap_cython_function">>
        handle == wrap_cython_function(scalar_func_name, output_dtypes[1],
                                       input_dtypes, br)
    IN IF bare /\ scalar_func_name \notin NumpyNames
       THEN Raised("AttributeError", t1)
       ELSE IF ~OutputsSupported(output_dtypes)
       THEN Raised("ValueError", t1)
       ELSE IF cython_found /\ ~br.avail
       THEN Raised(IF br.signal = "raise" THEN "NotImplementedError"
                   ELSE "AttributeError", t3)
       ELSE IF cython_found
       THEN Synthesize(o, n, kw, t3, <<handle>>,
                       handle.has_pyx_skip_dispatch,
                       <<handle.arg_dtypes>>, <<handle.out_dtype>>)
       ELSE IF bare
       THEN Synthesize(o, n, kw, t2,
                       <<[kind |-> "numpy", name |-> scalar_func_name]>>,
                       FALSE, <<>>, <<>>)
       ELSE Synthesize(o, n, kw, t2, <<>>, FALSE, <<>>, <<>>)

(***************************************************************************)
(* Add and Mul                                                             *)
(***************************************************************************)
\* binary_op.join(input_names): the names with the operator between them
RECURSIVE Join(_, _)
Join(binary_op, names) ==
  IF Len(names) <= 1 THEN names
  ELSE <<Head(names), binary_op>> \o Join(binary_op, Tail(names))

binary_to_nary_func_DropsFirst(inputs, binary_op_name, binary_op) ==
  LET input_names == unique_name_generator({"binary_op_name"}, "_", inputs)
  IN [def |-> binary_op_name,
      params |-> input_names,
      expr |-> Join(binary_op,
                    IF Len(input_names) > 1 THEN Tail(input_names)
                    ELSE input_names)]

\* lines 170-183
binary_to_nary_func(inputs, binary_op_name, binary_op) ==
  LET input_names == unique_name_generator({"binary_op_name"}, "_", inputs)
  IN [def |-> binary_op_name,
      params |-> input_names,
      expr |-> Join(binary_op, input_names)]

AddLowering_ShortSignature(o, n, kw) ==
  LET signature == create_numba_signature(
                     [inputs |-> Tail(n.inputs), outputs |-> n.outputs])
      nary_add_fn == binary_to_nary_func(n.inputs, "add", "+")
  IN Returned(numba_njit(signature, "default", nary_add_fn, <<>>,
                         [kind |-> "source", name |-> "add"]),
              <<"create_numba_signature", "unique_name_generator",
                "compile_function_src", "numba_njit">>, <<>>)

\* lines 186-193
AddLowering(o, n, kw) ==
  LET signature == create_numba_signature(n)
      nary_add_fn == binary_to_nary_func(n.inputs, "add", "+")
  IN Returned(numba_njit(signature, "default", nary_add_fn, <<>>,
                         [kind |-> "source", name |-> "add"]),
              <<"create_numba_signature", "unique_name_generator",
                "compile_function_src", "numba_njit">>, <<>>)

\* lines 196-203
MulLowering(o, n, kw) ==
  LET signature == create_numba_signature(n)
      nary_add_fn == binary_to_nary_func(n.inputs, "mul", "*")
  IN Returned(numba_njit(signature, "default", nary_add_fn, <<>>,
                         [kind |-> "source", name |-> "mul"]),
              <<"create_numba_signature", "unique_name_generator",
                "compile_function_src", "numba_njit">>, <<>>)

(***************************************************************************)
(* Composite                                                               *)
(***************************************************************************)
\* kwargs.pop(key, None) on the callee's own dict
Pop(kw, key) == [k \in (DOMAIN kw) \ {key} |-> kw[k]]

\* numba_funcify(fgraph, squeeze_output=..., **kwargs): the function the
\* sub-graph lowering returns, one parameter per input of the graph
LowerFgraph(fgraph) ==
  [def |-> "numba_funcified_fgraph",
   params |-> [i \in 1..Len(fgraph.inputs) |-> fgraph.inputs[i].name]]

CompositeLowering_KeepsStorageMap(o, n, kw) ==
  LET signature == create_numba_signature(o.fgraph)
  IN Returned(numba_njit(signature, "default", LowerFgraph(o.fgraph), <<>>,
                         [kind |-> "fgraph", name |-> "composite"]),
              <<"create_numba_signature", "numba_funcify_fgraph",
                "numba_njit">>,
              <<[fn |-> "numba_funcify", target |-> o.fgraph,
                 squeeze_output |-> TRUE, kwargs |-> kw]>>)

\* lines 248-257
CompositeLowering(o, n, kw) ==
  LET signature == create_numba_signature(o.fgraph)
      kwargs_popped == Pop(kw, "storage_map")
  IN Returned(numba_njit(signature, "default", LowerFgraph(o.fgraph), <<>>,
                         [kind |-> "fgraph", name |-> "composite"]),
              <<"create_numba_signature", "numba_funcify_fgraph",
                "numba_njit">>,
              <<[fn |-> "numba_funcify", target |-> o.fgraph,
                 squeeze_output |-> TRUE, kwargs |-> kwargs_popped]>>)

(***************************************************************************)
(* Kernels defined in scalar.py, applied to argument values.               *)
(***************************************************************************)
clip_Swapped(_x, _min, _max) ==
  LET x == to_scalar(_x)
      _min_scalar == to_scalar(_min)
      _max_scalar == to_scalar(_max)
  IN IF x < _min_scalar THEN _max_scalar
     ELSE IF x > _max_scalar THEN _min_scalar
     ELSE x

\* lines 229-240
clip(_x, _min, _max) ==
  LET x == to_scalar(_x)
      _min_scalar == to_scalar(_min)
      _max_scalar == to_scalar(_max)
  IN IF x < _min_scalar THEN _min_scalar
     ELSE IF x > _max_scalar THEN _max_scalar
     ELSE x

\* the value a parameter name is bound to in a call
Lookup(params, argv, name) ==
  argv[CHOOSE i \in 1..Len(params) : params[i] = name]

BinOp(binary_op, a, b) == IF binary_op = "+" THEN a + b ELSE a * b

\* the value of name op name op ... name, evaluated left to right
RECURSIVE EvalExpr(_, _, _, _)
EvalExpr(acc, rest, params, argv) ==
  IF rest = <<>> THEN acc
  ELSE EvalExpr(BinOp(rest[1], acc, Lookup(params, argv, rest[2])),
                SubSeq(rest, 3, Len(rest)), params, argv)

\* a call of the function compile_function_src made of an n-ary source
CallNary(src, argv) ==
  EvalExpr(Lookup(src.params, argv, src.expr[1]),
           SubSeq(src.expr, 2, Len(src.expr)), src.params, argv)

(***************************************************************************)
(* The nodes a behaviour starts from.                                      *)
(***************************************************************************)
\* the operator kinds with a strategy of their own
FastKinds ==
  {"Add", "Mul", "Cast", "Clip", "Switch", "Second", "Identity", "ViewOp",
   "Reciprocal", "Sigmoid", "GammaLn", "Log1mexp", "Erf", "Erfc",
   "Composite"}

\* nfunc_spec[0] of an operator: a bare numpy name (defined or not), a
\* scipy.special name (defined or not), and paths in other namespaces
Descriptors ==
  { <<"exp">>, <<"nosuchfn">>,
    <<"scipy", "special", "erfcx">>, <<"scipy", "special", "nosuchfn">>,
    <<"scipy", "specialx", "erfcx">>, <<"mylib", "fn">> }

\* operators as (class, nfunc_spec): the classes with a strategy, none of
\* which reads the descriptor; XlogX and XlogY0, which define none; some
\* other scalar operator, with each descriptor; an operator that is not
\* scalar
OpHeads ==
  (FastKinds \X {<<"exp">>})
  \cup ({"XlogX", "XlogY0", "Op"} \X {NoSpec})
  \cup ({"ScalarOp"} \X (Descriptors \cup {NoSpec}))

SeqsUpTo(S, n) == UNION {[1..k -> S] : k \in 1..n}

Variables(names) == [name : names, dtype : Dtypes]

\* a Composite's function graph has the node's input and output types
\* (Composite.make_node); its Variables have names of their own
FgraphOf(kind, ins, outs) ==
  IF kind = "Composite"
  THEN [inputs |-> [i \in 1..Len(ins) |->
                      [name |-> "i" \o ToString(i - 1),
                       dtype |-> ins[i].dtype]],
        outputs |-> outs]
  ELSE [inputs |-> <<>>, outputs |-> <<>>]

MakeOp(head, ins, outs) ==
  [kind |-> head[1], nfunc_spec |-> head[2],
   fgraph |-> FgraphOf(head[1], ins, outs),
   o_type |-> outs[1]]

\* the keyword arguments the driver passes to numba_funcify
Contexts ==
  UNION {[K -> {"outer"}] :
           K \in {{"storage_map", "global_env"}, {"global_env"}}}

Init ==
  /\ pc = "start"
  /\ \E head \in OpHeads, ins \in SeqsUpTo(Variables(Names), MaxInputs),
        outs \in SeqsUpTo(Dtypes, MaxOutputs) :
       /\ op = MakeOp(head, ins, outs)
       /\ node = [inputs |-> ins, outputs |-> outs]
  /\ kwargs \in Contexts
  /\ strategy = "none"
  /\ bridge = NotConsulted(Len(node.inputs))
  /\ result = NoResult
  /\ args = <<>>
  /\ ret = <<>>

Values == (0 - 1)..MaxVal

\* SpecCall: Add and Mul nodes with argument values, and calls of clip with
\* scalars and 0-d arrays
InitCall ==
  /\ pc = "start"
  /\ \/ \E kind \in {"Add", "Mul"},
          ins \in SeqsUpTo([name : FoldNames, dtype : {"float64"}],
                           MaxFoldInputs) :
          /\ op = MakeOp(<<kind, <<"exp">> >>, ins, <<"float64">>)
          /\ node = [inputs |-> ins, outputs |-> <<"float64">>]
          /\ args \in [1..Len(ins) -> 0..MaxVal]
     \/ /\ op = MakeOp(<<"Clip", <<"exp">> >>, <<>>, <<"float64">>)
        /\ node = [inputs |-> [i \in 1..3 |->
                                 [name |-> "x", dtype |-> "float64"]],
                   outputs |-> <<"float64">>]
        /\ args \in [1..3 -> [boxed : BOOLEAN, val : Values]]
  /\ kwargs = <<>>
  /\ strategy = "none"
  /\ bridge = NotConsulted(Len(node.inputs))
  /\ result = NoResult
  /\ ret = <<>>

(***************************************************************************)
(* Actions.                                                                *)
(***************************************************************************)
\* numba_funcify(op, node, **kwargs): single dispatch on the class of op
Dispatch ==
  /\ pc = "start"
  /\ strategy' = numba_funcify(op.kind)
  /\ pc' = "dispatched"
  /\ UNCHANGED <<op, node, kwargs, bridge, result, args, ret>>

Lowered(name, res) ==
  /\ pc = "dispatched"
  /\ strategy = name
  /\ result' = res
  /\ pc' = "done"
  /\ UNCHANGED <<op, node, kwargs, strategy, args, ret>>

Run(name, res) == Lowered(name, res) /\ UNCHANGED bridge

\* the base function: the generic fallback lowering
numba_funcify_generic ==
  Run("numba_funcify",
      Returned(generate_fallback_impl(op, node, kwargs),
               <<"generate_fallback_impl">>, <<>>))

\* the special-function library is asked only for a name it defines
ConsultsBridge(o) ==
  /\ hasattr_nfunc_spec(o)
  /\ StartsWithScipySpecial(o.nfunc_spec)
  /\ o.nfunc_spec[Len(o.nfunc_spec)] \in CythonSpecialNames

numba_funcify_ScalarOp ==
  /\ pc = "dispatched"
  /\ strategy = "numba_funcify_ScalarOp"
  /\ \E br \in (IF ConsultsBridge(op)
                THEN BridgeOutcomes(Len(node.inputs))
                ELSE {NotConsulted(Len(node.inputs))}) :
       /\ Lowered("numba_funcify_ScalarOp",
                  ScalarOpLowering(op, node, kwargs, br))
       /\ bridge' = br

numba_funcify_Switch ==
  Run("numba_funcify_Switch",
      Returned(global_numba_func("switch", <<"condition", "x", "y">>),
               <<>>, <<>>))

numba_funcify_Add ==
  Run("numba_funcify_Add", AddLowering(op, node, kwargs))

numba_funcify_Mul ==
  Run("numba_funcify_Mul", MulLowering(op, node, kwargs))

numba_funcify_Cast ==
  Run("numba_funcify_Cast",
      Returned([kind |-> "closure", name |-> "cast", params |-> <<"x">>,
                dtype |-> op.o_type], <<>>, <<>>))

numba_funcify_ViewOp ==
  Run("numba_funcify_ViewOp",
      Returned(global_numba_func("viewop", <<"x">>), <<>>, <<>>))

numba_funcify_Clip ==
  Run("numba_funcify_Clip",
      Returned(global_numba_func("clip", <<"_x", "_min", "_max">>),
               <<>>, <<>>))

numba_funcify_Composite ==
  Run("numba_funcify_Composite", CompositeLowering(op, node, kwargs))

numba_funcify_Second ==
  Run("numba_funcify_Second",
      Returned(global_numba_func("second", <<"x", "y">>), <<>>, <<>>))

numba_funcify_Reciprocal ==
  Run("numba_funcify_Reciprocal",
      Returned(global_numba_func("reciprocal", <<"x">>), <<>>, <<>>))

numba_funcify_Sigmoid ==
  Run("numba_funcify_Sigmoid",
      Returned(global_numba_func("sigmoid", <<"x">>), <<>>, <<>>))

numba_funcify_GammaLn ==
  Run("numba_funcify_GammaLn",
      Returned(global_numba_func("gammaln", <<"x">>), <<>>, <<>>))

numba_funcify_Log1mexp ==
  Run("numba_funcify_Log1mexp",
      Returned(global_numba_func("logp1mexp", <<"x">>), <<>>, <<>>))

numba_funcify_Erf ==
  Run("numba_funcify_Erf",
      Returned(global_numba_func("erf", <<"x">>), <<>>, <<>>))

numba_funcify_Erfc ==
  Run("numba_funcify_Erfc",
      Returned(global_numba_func("erfc", <<"x">>), <<>>, <<>>))

\* the driver calls the kernel it was given
Apply(kernel, argv) ==
  IF kernel.kind = "global" THEN clip(argv[1], argv[2], argv[3])
  ELSE CallNary(kernel.src, argv)

CallKernel ==
  /\ pc = "done"
  /\ result.error = NoError
  /\ ret' = <<Apply(result.kernel, args)>>
  /\ pc' = "called"
  /\ UNCHANGED <<op, node, kwargs, strategy, bridge, result, args>>

Next ==
  \/ Dispatch
  \/ numba_funcify_generic
  \/ numba_funcify_ScalarOp
  \/ numba_funcify_Switch
  \/ numba_funcify_Add
  \/ numba_funcify_Mul
  \/ numba_funcify_Cast
  \/ numba_funcify_ViewOp
  \/ numba_funcify_Clip
  \/ numba_funcify_Composite
  \/ numba_funcify_Second
  \/ numba_funcify_Reciprocal
  \/ numba_funcify_Sigmoid
  \/ numba_funcify_GammaLn
  \/ numba_funcify_Log1mexp
  \/ numba_funcify_Erf
  \/ numba_funcify_Erfc

Spec == Init /\ [][Next]_vars

NextCall ==
  \/ Dispatch
  \/ numba_funcify_Add
  \/ numba_funcify_Mul
  \/ numba_funcify_Clip
  \/ CallKernel

SpecCall == InitCall /\ [][NextCall]_vars

(***************************************************************************)
(* Properties.                                                             *)
(***************************************************************************)
Events(res) == {res.trace[i] : i \in 1..Len(res.trace)}

Elems(q) == {q[i] : i \in 1..Len(q)}

Distinct(q) == \A i, j \in 1..Len(q) : q[i] = q[j] => i = j

InputDtypes(n) == [i \in 1..Len(n.inputs) |-> n.inputs[i].dtype]

BareName(o) == Len(o.nfunc_spec) = 1

LastSegment(o) == o.nfunc_spec[Len(o.nfunc_spec)]

\* the value an environment binds a key to
EnvValue(env, key) == env[CHOOSE i \in 1..Len(env) : env[i].key = key].value

Synthesized ==
  /\ pc = "done"
  /\ strategy = "numba_funcify_ScalarOp"
  /\ result.error = NoError
  /\ result.kernel.kind = "njit"

\* the strategy scalar.py names for a kind with one of its own
ExactStrategy(kind) ==
  IF kind \in {"Identity", "ViewOp"} THEN "numba_funcify_ViewOp"
  ELSE "numba_funcify_" \o kind

\* C1: an operator whose kind has a fast-path strategy (Add, Mul, Cast, Clip,
\* Switch, Second, Identity/ViewOp, Reciprocal, Sigmoid, GammaLn, Log1mexp,
\* Erf, Erfc, Composite) is lowered by exactly that strategy, never by the
\* ScalarOp synthesizer nor by the generic fallback lowering; the ScalarOp
\* strategy is selected only for a scalar operator whose kind has none.
C1_ExactKindFirst ==
  pc \in {"dispatched", "done"} =>
    /\ op.kind \in {"Add", "Mul", "Cast", "Clip", "Switch", "Second",
                    "Identity", "ViewOp", "Reciprocal", "Sigmoid", "GammaLn",
                    "Log1mexp", "Erf", "Erfc", "Composite"} =>
         /\ strategy = ExactStrategy(op.kind)
         /\ strategy \notin {"numba_funcify_ScalarOp", "numba_funcify"}
         /\ "generate_fallback_impl" \notin Events(result)
    /\ strategy = "numba_funcify_ScalarOp" =>
         /\ op.kind \in {"ScalarOp", "UnaryScalarOp", "BinaryScalarOp",
                         "XlogX", "XlogY0"}
         /\ "ScalarOp" \in Elems(Mro(op.kind))

C1_Witness ==
  /\ pc = "done"
  /\ op.kind = "Add"
  /\ strategy = "numba_funcify_Add"
  /\ result.kernel.kind = "njit"

\* C2 as stated: a node with more than one output that reaches the ScalarOp
\* synthesizer ends in the configuration error, raised before any synthesis
\* work: nothing was looked up, no fallback generated, no kernel returned.
C2_Original ==
  (pc = "done" /\ strategy = "numba_funcify_ScalarOp"
     /\ Len(node.outputs) > 1) =>
    /\ result.error = "ValueError"
    /\ result.trace = <<>>
    /\ result.kernel = NoKernel

\* C2 amended: a node with more than one output whose operator carries a
\* descriptor ends in an error and gets no kernel; the error is the
\* configuration error, or the failed lookup of a bare name numpy does not
\* define, and it is raised after at most the lookup of a bare name in numpy:
\* before the special-function library is asked, a fallback generated or any
\* source built.  Without a descriptor the node is handed to the generic
\* fallback lowering, which returns a kernel.
C2_MultiOutputWithDescriptor ==
  (pc = "done" /\ strategy = "numba_funcify_ScalarOp"
     /\ Len(node.outputs) > 1) =>
    IF op.nfunc_spec # NoSpec
    THEN /\ result.error =
              IF BareName(op) /\ LastSegment(op) \notin NumpyNames
              THEN "AttributeError" ELSE "ValueError"
         /\ result.kernel = NoKernel
         /\ result.trace = IF BareName(op) THEN <<"getattr_np">> ELSE <<>>
    ELSE /\ result.error = NoError
         /\ result.kernel.kind = "fallback"
         /\ result.trace = <<"generate_fallback_impl">>

C2_Witness ==
  /\ pc = "done"
  /\ strategy = "numba_funcify_ScalarOp"
  /\ Len(node.outputs) = 2
  /\ op.nfunc_spec = <<"scipy", "special", "erfcx">>
  /\ result.error = "ValueError"
  /\ result.trace = <<>>

\* the descriptor resolves in neither namespace: a bare name numpy does not
\* define, a name the special-function library does not define or does not
\* implement for the node's dtypes, or a path in another namespace
Unresolved ==
  /\ op.nfunc_spec # NoSpec
  /\ \/ BareName(op) /\ LastSegment(op) \notin NumpyNames
     \/ ~BareName(op) /\ ~ConsultsBridge(op)
     \/ ConsultsBridge(op) /\ ~bridge.avail

\* C3: for a single-output operator whose descriptor resolves in neither
\* namespace, the synthesizer raises nothing and returns a kernel built on
\* the generic fallback lowering of the node.
C3_UnresolvedFallsBack ==
  (pc = "done" /\ strategy = "numba_funcify_ScalarOp"
     /\ Len(node.outputs) = 1 /\ Unresolved) =>
    /\ result.error = NoError
    /\ result.kernel.kind = "njit"
    /\ result.kernel.impl.kind = "fallback"

\* C4: a kernel specialized against a declared signature (ScalarOp
\* synthesizer, Add, Mul, Composite) has one parameter per input Variable of
\* the node, and the signature's input and output dtypes are those of the
\* node's input and output Variables, in order.
C4_SignatureFidelity ==
  (pc = "done" /\ result.error = NoError /\ result.kernel.kind = "njit") =>
    /\ Len(result.kernel.src.params) = Len(node.inputs)
    /\ result.kernel.signature.ins = InputDtypes(node)
    /\ result.kernel.signature.outs = node.outputs

C4_Witness ==
  /\ pc = "done"
  /\ strategy \in {"numba_funcify_ScalarOp", "numba_funcify_Composite"}
  /\ result.error = NoError
  /\ result.kernel.kind = "njit"
  /\ InputDtypes(node) = <<"float32", "float64">>
  /\ result.kernel.signature.ins = <<"float32", "float64">>

\* the names a synthesized wrapper's body takes from its environment
FreeSymbols(src) ==
  {src.callee} \cup Elems(src.outer)
  \cup UNION {Elems(src.args[i].cast) : i \in 1..Len(src.args)}
  \cup (IF src.extra # <<>> THEN {"np"} ELSE {})

\* C5: in every source the ScalarOp synthesizer or binary_to_nary_func
\* builds, whatever the input Variables are named, the parameter names are
\* pairwise distinct and none is the kernel function's own name or a name
\* the body takes from its environment (scalar_func_numba, direct_cast,
\* output_dtype, inp_tmp_dtype_i, np).
C5_NoSharedNames ==
  (pc = "done" /\ result.error = NoError /\ result.kernel.kind = "njit"
     /\ strategy \in {"numba_funcify_ScalarOp", "numba_funcify_Add",
                      "numba_funcify_Mul"}) =>
    LET src == result.kernel.src
    IN /\ Distinct(src.params)
       /\ src.def \notin Elems(src.params)
       /\ strategy = "numba_funcify_ScalarOp" =>
            FreeSymbols(src) \cap Elems(src.params) = {}

\* the operands folded from the left: ((x1 op x2) op x3) ... op xn
RECURSIVE LeftFold(_, _)
LeftFold(binary_op, xs) ==
  IF Len(xs) = 1 THEN xs[1]
  ELSE BinOp(binary_op, LeftFold(binary_op, SubSeq(xs, 1, Len(xs) - 1)),
             xs[Len(xs)])

\* C6: the kernel of an Add (Mul) node with n >= 1 inputs takes n arguments
\* and returns their left-to-right fold with + (*), the single argument
\* itself when n = 1.
C6_Fold ==
  (pc = "called" /\ op.kind \in {"Add", "Mul"}) =>
    /\ Len(result.kernel.src.params) = Len(node.inputs)
    /\ Len(args) = Len(node.inputs)
    /\ ret = <<LeftFold(IF op.kind = "Add" THEN "+" ELSE "*", args)>>
    /\ Len(args) = 1 => ret = <<args[1]>>

C6_Witness ==
  /\ pc = "called"
  /\ op.kind = "Add"
  /\ args = <<2, 3, 4>>
  /\ ret = <<9>>

\* C7: for lo <= hi, clip(x, lo, hi) is lo when x < lo, hi when x > hi and
\* x otherwise: it lies in [lo, hi] and is x when x already does.
C7_Clip ==
  (pc = "called" /\ op.kind = "Clip" /\ args[2].val <= args[3].val) =>
    LET x == args[1].val
        lo == args[2].val
        hi == args[3].val
    IN /\ x < lo => ret = <<lo>>
       /\ x > hi => ret = <<hi>>
       /\ (lo <= x /\ x <= hi) => ret = <<x>>
       /\ lo <= ret[1] /\ ret[1] <= hi

C7_Witness ==
  /\ pc = "called"
  /\ op.kind = "Clip"
  /\ args[1].val = 5 /\ args[2].val = 0 /\ args[3].val = 3
  /\ args[1].boxed
  /\ ret = <<3>>

\* C8: when the special-function library resolves the descriptor and reports
\* working precisions, the wrapper casts the i-th input, and every input, to
\* the i-th input working precision, calls the implementation, and casts the
\* result once to the output working precision; every cast target is bound
\* in the environment under its name.
C8_CastsEveryInput ==
  (Synthesized /\ result.kernel.impl.kind = "cython") =>
    LET src == result.kernel.src
        env == result.kernel.env
    IN /\ Len(src.params) = Len(node.inputs)
       /\ Len(src.args) = Len(node.inputs)
       /\ \A i \in 1..Len(node.inputs) :
            /\ src.args[i].var = src.params[i]
            /\ src.args[i].cast =
                 <<"direct_cast", "inp_tmp_dtype_" \o ToString(i - 1)>>
            /\ EnvValue(env, src.args[i].cast[2]) = bridge.inner_in[i]
       /\ src.callee = "scalar_func_numba"
       /\ EnvValue(env, "scalar_func_numba").kind = "cython"
       /\ src.outer = <<"direct_cast", "output_dtype">>
       /\ EnvValue(env, "output_dtype") = bridge.inner_out
       /\ Distinct([i \in 1..Len(env) |-> env[i].key])

C8_Witness ==
  /\ Synthesized
  /\ result.kernel.impl.kind = "cython"
  /\ InputDtypes(node) = <<"float32", "float64">>
  /\ bridge.inner_in = <<"float64", "float32">>
  /\ bridge.inner_out = "float32"

\* C9: the forwarded call carries the extra trailing argument np.intc(1) if
\* and only if the resolved handle reports that it requires one; otherwise
\* it carries the node's inputs and nothing else.  An implementation from
\* numpy or from the generic fallback never receives it.
C9_DispatchFlag ==
  Synthesized =>
    LET src == result.kernel.src
        impl == result.kernel.impl
        flagged == impl.kind = "cython" /\ bridge.pyx
    IN /\ Len(src.args) = Len(node.inputs)
       /\ src.extra = IF flagged THEN <<"np.intc(1)">> ELSE <<>>
       /\ impl.kind \in {"numpy", "fallback"} => src.extra = <<>>

C9_Witness ==
  /\ Synthesized
  /\ result.kernel.impl.kind = "cython"
  /\ bridge.pyx
  /\ result.kernel.src.extra = <<"np.intc(1)">>
  /\ result.kernel.src.outer # <<>>

\* C10: lowering a Composite makes one recursive call of the sub-graph
\* lowering, on the Composite's own graph, with squeeze_output set and the
\* caller's keyword arguments less storage_map, every other key unchanged;
\* one specialized kernel is returned and the caller's keyword arguments are
\* as they were.
C10_CompositeContext ==
  [][(pc = "dispatched" /\ strategy = "numba_funcify_Composite") =>
       /\ kwargs' = kwargs
       /\ Len(result'.calls) = 1
       /\ result'.calls[1].fn = "numba_funcify"
       /\ result'.calls[1].target = op.fgraph
       /\ result'.calls[1].squeeze_output
       /\ DOMAIN result'.calls[1].kwargs = (DOMAIN kwargs) \ {"storage_map"}
       /\ \A k \in DOMAIN result'.calls[1].kwargs :
            result'.calls[1].kwargs[k] = kwargs[k]
       /\ result'.error = NoError
       /\ result'.kernel.kind = "njit"]_vars

C10_Witness ==
  /\ pc = "done"
  /\ strategy = "numba_funcify_Composite"
  /\ "storage_map" \in DOMAIN kwargs
  /\ DOMAIN result.calls[1].kwargs = {"global_env"}

====
